---- MODULE Spec2Model ----
(***************************************************************************)
(* A state-machine model of the gRPC server runtime of                     *)
(* packages/grpc-js/src/server.ts: the handler registry, the bind engine,  *)
(* the session manager, the per-stream dispatch and the two shutdown       *)
(* operations, together with the channelz (telemetry) accounting.          *)
(*                                                                         *)
(* The Node.js event loop runs one callback at a time, so every public     *)
(* method and every event handler of the class is one atomic action.       *)
(***************************************************************************)
EXTENDS Integers, Sequences, FiniteSets, TLC

VARIABLES
    handlers,          \* Server.handlers: path -> handler
    ret,               \* outcome of the latest public method call (value or thrown error)
    started,           \* Server.started
    http2ServerList,   \* Server.http2ServerList: sequence of http2 server ids
    sock,              \* per http2 server object: transport state and channelz ref
    sessions,          \* Server.sessions: session -> ChannelzSessionInfo
    sess,              \* per http2 session: transport state, channelz ref, close callback
    shutdowns,         \* one record per tryShutdown call: pendingChecks, callback invocations, error passed
    serverRef,         \* the server's channelz ref: registered flag, number of unregister calls
    trace,             \* number of 'Starting' entries of Server.channelzTrace
    callTracker,       \* Server.callTracker
    calls,             \* per incoming http2 stream: dispatch state
    bind,              \* the latest bindAsync call
    bindCalls          \* number of bindAsync calls that passed their argument checks

vars == <<handlers, ret, started, http2ServerList, sock, sessions, sess,
          shutdowns, serverRef, trace, callTracker, calls, bind, bindCalls>>

registryVars == <<handlers>>
lifeVars == <<started, http2ServerList, sock, sessions, sess, shutdowns, serverRef, trace>>
callVars == <<callTracker, calls>>
bindVars == <<bind, bindCalls>>

(***************************************************************************)
(* Bounds of the model.                                                    *)
(***************************************************************************)
MaxSockets == 2
MaxSessions == 2
MaxShutdowns == 2
MaxStreams == 1
MaxBinds == 1
MaxAddrs == 2
MaxStarts == 2
MaxForce == 2
MaxResolverEvents == 2

SockIds == 1..MaxSockets
SessIds == 1..MaxSessions
StreamIds == 1..MaxStreams

(***************************************************************************)
(* Handler registry                                                        *)
(***************************************************************************)
Paths == {"/demo.S/Echo", "/demo.S/Feed", "/demo.S/Watch"}
HandlerTypes == {"unary", "clientStream", "serverStream", "bidi"}
\* register() takes the type as an arbitrary string.
TypeStrings == HandlerTypes \cup {"bogus"}
UserFn(id) == [kind |-> "user", id |-> id, type |-> ""]
Funcs == {UserFn("implEcho"), UserFn("implOther")}

EmptyMap == [p \in {} |-> TRUE]

Returned(op, v) == [op |-> op, threw |-> FALSE, val |-> v]
Threw(op, msg) == [op |-> op, threw |-> TRUE, val |-> msg]

MapHas(m, k) == k \in DOMAIN m
MapSet(m, k, v) == [x \in DOMAIN m \cup {k} |-> IF x = k THEN v ELSE m[x]]
MapDelete(m, k) == [x \in DOMAIN m \ {k} |-> m[x]]

HandlerEntry(name, func, serialize, deserialize, type) ==
    [func |-> func, serialize |-> serialize, deserialize |-> deserialize,
     type |-> type, path |-> name]

\* A register that reports the collision and replaces the handler all the same.
registerReplacing(h, name, func, serialize, deserialize, type) ==
    [success |-> ~MapHas(h, name),
     handlers |-> MapSet(h, name, HandlerEntry(name, func, serialize, deserialize, type))]

\* A register without the has() test: the later handler replaces the earlier.
registerOverwriting(h, name, func, serialize, deserialize, type) ==
    [success |-> TRUE,
     handlers |-> MapSet(h, name, HandlerEntry(name, func, serialize, deserialize, type))]

\* Server.register as a function of the handler map: the returned boolean and
\* the map afterwards.
register(h, name, func, serialize, deserialize, type) ==
    IF MapHas(h, name)
    THEN [success |-> FALSE, handlers |-> h]
    ELSE [success |-> TRUE,
          handlers |-> MapSet(h, name, HandlerEntry(name, func, serialize, deserialize, type))]

\* Server.unregister: Map.delete returns whether the key was present.
unregister(h, name) ==
    [success |-> MapHas(h, name), handlers |-> MapDelete(h, name)]

Register(name, func, type) ==
    LET r == register(handlers, name, func, <<"ser", "raw">>, <<"de", "raw">>, type) IN
    /\ handlers' = r.handlers
    /\ ret' = Returned("register", r.success)
    /\ UNCHANGED <<lifeVars, callVars, bindVars>>

Unregister(name) ==
    LET r == unregister(handlers, name) IN
    /\ handlers' = r.handlers
    /\ ret' = Returned("unregister", r.success)
    /\ UNCHANGED <<lifeVars, callVars, bindVars>>

(***************************************************************************)
(* Service definitions and implementations offered to addService.  A       *)
(* definition is the sequence of its methods in Object.keys order; an      *)
(* absent originalName is the empty sequence.                              *)
(***************************************************************************)
Method(name, path, reqStream, resStream, orig) ==
    [name |-> name, path |-> path, requestStream |-> reqStream,
     responseStream |-> resStream, originalName |-> orig,
     responseSerialize |-> <<"ser", name>>, requestDeserialize |-> <<"de", name>>]

Obj(v) == [isObject |-> TRUE, v |-> v]
Null == [isObject |-> FALSE, v |-> <<>>]

SvcDemo == Obj(<<Method("echo", "/demo.S/Echo", FALSE, FALSE, <<"Echo">>),
                 Method("feed", "/demo.S/Feed", TRUE, FALSE, <<>>)>>)
SvcWatch == Obj(<<Method("watch", "/demo.S/Watch", FALSE, TRUE, <<>>)>>)
\* Collides with SvcDemo on its second method.
SvcClash == Obj(<<Method("watch", "/demo.S/Watch", TRUE, TRUE, <<>>),
                  Method("echo", "/demo.S/Echo", FALSE, FALSE, <<>>),
                  Method("feed", "/demo.S/Feed", TRUE, FALSE, <<>>)>>)
SvcEmpty == Obj(<<>>)
\* Two methods of one definition with the same path.
SvcTwice == Obj(<<Method("watch", "/demo.S/Watch", FALSE, TRUE, <<>>),
                  Method("watchAll", "/demo.S/Watch", TRUE, TRUE, <<>>)>>)
Services == {SvcDemo, SvcWatch, SvcClash, SvcEmpty, SvcTwice, Null}

ImplByName == Obj([n \in {"echo", "feed", "watch"} |-> UserFn(n)])
ImplByOriginal == Obj([n \in {"Echo"} |-> UserFn(n)])
Implementations == {ImplByName, ImplByOriginal, Null}

methodType(attrs) ==
    IF attrs.requestStream
    THEN IF attrs.responseStream THEN "bidi" ELSE "clientStream"
    ELSE IF attrs.responseStream THEN "serverStream" ELSE "unary"

\* getDefaultHandler(handlerType, methodName)
getDefaultHandler(handlerType, methodName) ==
    [kind |-> "default", id |-> methodName, type |-> handlerType]

\* The function addService registers for one method.
implFor(attrs, implementation) ==
    LET fns == implementation.v
        byName == attrs.name \in DOMAIN fns
        byOrig == /\ ~byName
                  /\ attrs.originalName # <<>>
                  /\ attrs.originalName[1] \in DOMAIN fns
    IN  IF byName THEN fns[attrs.name]
        ELSE IF byOrig THEN fns[attrs.originalName[1]]
        ELSE getDefaultHandler(methodType(attrs), attrs.name)

\* The serviceKeys.forEach loop of addService from method i on: registers
\* method after method and stops at the first register that returns false.
RECURSIVE addServiceLoop(_, _, _, _)
addServiceLoop(h, keys, implementation, i) ==
    IF i > Len(keys) THEN [threw |-> FALSE, msg |-> <<>>, handlers |-> h]
    ELSE LET attrs == keys[i]
             r == register(h, attrs.path, implFor(attrs, implementation),
                           attrs.responseSerialize, attrs.requestDeserialize,
                           methodType(attrs))
         IN  IF r.success = FALSE
             THEN [threw |-> TRUE,
                   msg |-> <<"Method handler for ", attrs.path, " already provided.">>,
                   handlers |-> r.handlers]
             ELSE addServiceLoop(r.handlers, keys, implementation, i + 1)

\* An addService that registers all the methods or none.
addServiceAtomic(h, service, implementation) ==
    IF ~service.isObject \/ ~implementation.isObject
    THEN [threw |-> TRUE, msg |-> <<"addService() requires two objects as arguments">>,
          handlers |-> h]
    ELSE IF Len(service.v) = 0
    THEN [threw |-> TRUE, msg |-> <<"Cannot add an empty service to a server">>,
          handlers |-> h]
    ELSE LET r == addServiceLoop(h, service.v, implementation, 1) IN
         IF r.threw THEN [r EXCEPT !.handlers = h] ELSE r

addService(h, service, implementation) ==
    IF ~service.isObject \/ ~implementation.isObject
    THEN [threw |-> TRUE, msg |-> <<"addService() requires two objects as arguments">>,
          handlers |-> h]
    ELSE IF Len(service.v) = 0
    THEN [threw |-> TRUE, msg |-> <<"Cannot add an empty service to a server">>,
          handlers |-> h]
    ELSE addServiceLoop(h, service.v, implementation, 1)

RECURSIVE removeServiceLoop(_, _, _)
removeServiceLoop(h, keys, i) ==
    IF i > Len(keys) THEN h
    ELSE removeServiceLoop(unregister(h, keys[i].path).handlers, keys, i + 1)

\* A removeService that unregisters nothing.
removeServiceKeepingAll(h, service) ==
    [threw |-> FALSE, msg |-> <<>>, handlers |-> h]

removeService(h, service) ==
    IF ~service.isObject
    THEN [threw |-> TRUE, msg |-> <<"removeService() requires object as argument">>,
          handlers |-> h]
    ELSE [threw |-> FALSE, msg |-> <<>>, handlers |-> removeServiceLoop(h, service.v, 1)]

AddService(service, implementation) ==
    LET r == addService(handlers, service, implementation) IN
    /\ handlers' = r.handlers
    /\ ret' = IF r.threw THEN Threw("addService", r.msg) ELSE Returned("addService", <<>>)
    /\ UNCHANGED <<lifeVars, callVars, bindVars>>

RemoveService(service) ==
    LET r == removeService(handlers, service) IN
    /\ handlers' = r.handlers
    /\ ret' = IF r.threw THEN Threw("removeService", r.msg) ELSE Returned("removeService", <<>>)
    /\ UNCHANGED <<lifeVars, callVars, bindVars>>

(***************************************************************************)
(* Lifecycle: listening sockets, sessions, start and the two shutdowns     *)
(*                                                                         *)
(* sock[k].st   "unused"    no http2 server object k yet                   *)
(*              "binding"   listen() called, neither callback has run      *)
(*              "failed"    the 'error' callback ran                       *)
(*              "listening" the listen callback ran (http2Server.listening)*)
(*              "closing"   close(cb) was called, cb has not run           *)
(*              "closed"    cb has run                                     *)
(* sess[s].st   "none"      no such session yet                            *)
(*              "open"      connected                                      *)
(*              "closing"   close() was called (session.closed is true)    *)
(*              "destroyed" destroy() was called, 'close' not yet emitted  *)
(*              "gone"      'close' has been emitted                       *)
(***************************************************************************)
NoSock == [st |-> "unused", reg |-> FALSE, child |-> FALSE, closeCb |-> <<>>]
NoSess == [st |-> "none", closed |-> FALSE, code |-> "none", accepted |-> FALSE,
           reg |-> FALSE, child |-> FALSE, closeCb |-> <<>>]
NewSessionInfo == [streamsStarted |-> 0, streamsSucceeded |-> 0, streamsFailed |-> 0]

Listed == {http2ServerList[i] : i \in 1..Len(http2ServerList)}
listening(k) == sock[k].st = "listening"

\* unregisterChannelzRef(this.channelzRef)
unregisterServerRef(ref) ==
    [registered |-> FALSE, unregisterCalls |-> ref.unregisterCalls + 1]

\* wrappedCallback of tryShutdown call t, as tryShutdown calls it (without an
\* argument): unregister the server's ref, then invoke the user callback with
\* the undefined error.
wrappedCallback(st, t) ==
    [shutdowns |-> [st.shutdowns EXCEPT ![t].called = @ + 1, ![t].error = "undefined"],
     serverRef |-> unregisterServerRef(st.serverRef)]

\* A maybeCallback that only counts down.
maybeCallbackOnlyCounting(st, t) ==
    [st EXCEPT !.shutdowns[t].pendingChecks = @ - 1]

\* maybeCallback of tryShutdown call t.
maybeCallback(st, t) ==
    LET dec == [st EXCEPT !.shutdowns[t].pendingChecks = @ - 1] IN
    IF dec.shutdowns[t].pendingChecks = 0 THEN wrappedCallback(dec, t) ELSE dec

\* Http2Session.destroy(code): nothing on a session already destroyed.
destroy(rec, code) ==
    IF rec.st \in {"destroyed", "gone"} THEN rec
    ELSE [rec EXCEPT !.st = "destroyed", !.code = code]

\* Http2Session.close(cb): nothing on a session already closed or destroyed;
\* otherwise the session is marked closed and cb waits for its 'close' event.
close(rec, cb) ==
    IF rec.closed \/ rec.st \in {"destroyed", "gone"} THEN rec
    ELSE [rec EXCEPT !.st = "closing", !.closed = TRUE, !.closeCb = cb]

\* A start that tests only the length of the listener list.
startWithoutListeningTest ==
    IF Len(http2ServerList) = 0
    THEN [threw |-> TRUE, msg |-> "server must be bound in order to start"]
    ELSE IF started = TRUE
    THEN [threw |-> TRUE, msg |-> "server is already started"]
    ELSE [threw |-> FALSE, msg |-> ""]

start ==
    IF \/ Len(http2ServerList) = 0
       \/ \A k \in Listed : ~listening(k)
    THEN [threw |-> TRUE, msg |-> "server must be bound in order to start"]
    ELSE IF started = TRUE
    THEN [threw |-> TRUE, msg |-> "server is already started"]
    ELSE [threw |-> FALSE, msg |-> ""]

Start ==
    /\ trace < MaxStarts
    /\ IF start.threw
       THEN /\ ret' = Threw("start", start.msg)
            /\ UNCHANGED <<trace, started>>
       ELSE /\ trace' = trace + 1
            /\ started' = TRUE
            /\ ret' = Returned("start", <<>>)
    /\ UNCHANGED <<http2ServerList, sock, sessions, sess, shutdowns, serverRef>>
    /\ UNCHANGED <<registryVars, callVars, bindVars>>

\* A forceShutdown that leaves the sessions map as it is.
sessionsNotCleared == sessions

\* this.sessions.clear() of forceShutdown: the map it leaves.
sessionsCleared == EmptyMap

ForceShutdown ==
    /\ serverRef.unregisterCalls < MaxForce
    /\ sock' = [k \in SockIds |->
                  IF k \in Listed /\ listening(k)
                  THEN [sock[k] EXCEPT !.st = "closing", !.closeCb = <<"force">>]
                  ELSE sock[k]]
    /\ started' = FALSE
    /\ sess' = [s \in SessIds |->
                  IF s \in DOMAIN sessions THEN destroy(sess[s], "CANCEL") ELSE sess[s]]
    /\ sessions' = sessionsCleared
    /\ serverRef' = unregisterServerRef(serverRef)
    /\ ret' = Returned("forceShutdown", <<>>)
    /\ UNCHANGED <<http2ServerList, shutdowns, trace>>
    /\ UNCHANGED <<registryVars, callVars, bindVars>>

TryShutdown ==
    /\ Len(shutdowns) < MaxShutdowns
    /\ LET t == Len(shutdowns) + 1
           closingSocks == {k \in Listed : listening(k)}
           closingSess == {s \in DOMAIN sessions : ~sess[s].closed}
           pendingChecks == Cardinality(closingSocks) + Cardinality(closingSess)
           entered == [shutdowns |-> Append(shutdowns,
                                        [pendingChecks |-> pendingChecks, called |-> 0,
                                         error |-> "none"]),
                       serverRef |-> serverRef]
           after == IF pendingChecks = 0 THEN wrappedCallback(entered, t) ELSE entered
       IN  /\ started' = FALSE
           /\ sock' = [k \in SockIds |->
                         IF k \in closingSocks
                         THEN [sock[k] EXCEPT !.st = "closing", !.closeCb = <<"try", t>>]
                         ELSE sock[k]]
           /\ sess' = [s \in SessIds |->
                         IF s \in closingSess THEN close(sess[s], <<t>>) ELSE sess[s]]
           /\ shutdowns' = after.shutdowns
           /\ serverRef' = after.serverRef
    /\ ret' = Returned("tryShutdown", <<>>)
    /\ UNCHANGED <<http2ServerList, sessions, trace>>
    /\ UNCHANGED <<registryVars, callVars, bindVars>>

\* The callback given to http2Server.close() runs: the listener's ref is
\* unreferenced and unregistered, and a tryShutdown's maybeCallback follows.
ListenerClosed(k) ==
    /\ sock[k].st = "closing"
    /\ sock' = [sock EXCEPT ![k] = [@ EXCEPT !.st = "closed", !.child = FALSE,
                                              !.reg = FALSE, !.closeCb = <<>>]]
    /\ LET cb == sock[k].closeCb
           now == [shutdowns |-> shutdowns, serverRef |-> serverRef]
           after == IF cb[1] = "try" THEN maybeCallback(now, cb[2]) ELSE now
       IN  /\ shutdowns' = after.shutdowns
           /\ serverRef' = after.serverRef
    /\ UNCHANGED <<started, http2ServerList, sessions, sess, trace, ret>>
    /\ UNCHANGED <<registryVars, callVars, bindVars>>

\* The 'session' listener of _setupHandlers, for the next new connection.
NextSession == CHOOSE s \in SessIds : sess[s].st = "none" /\ \A r \in SessIds : r < s => sess[r].st # "none"

\* A 'session' listener without the started test.
sessionNeverRefused == FALSE

\* The test the 'session' listener makes before anything else.
sessionRefused == ~started

SessionArrive ==
    /\ \E s \in SessIds : sess[s].st = "none"
    /\ \E k \in SockIds : sock[k].st \in {"listening", "closing"}
    /\ LET s == NextSession IN
       IF sessionRefused
       THEN /\ sess' = [sess EXCEPT ![s] = destroy([NoSess EXCEPT !.st = "open"], "NO_ERROR")]
            /\ UNCHANGED sessions
       ELSE /\ sess' = [sess EXCEPT ![s] = [NoSess EXCEPT !.st = "open", !.accepted = TRUE,
                                                         !.reg = TRUE, !.child = TRUE]]
            /\ sessions' = MapSet(sessions, s, NewSessionInfo)
    /\ UNCHANGED <<started, http2ServerList, sock, shutdowns, serverRef, trace, ret>>
    /\ UNCHANGED <<registryVars, callVars, bindVars>>

\* A 'close' handler that leaves the sessions map as it is.
sessionsKeptAfterClose(s) == sessions

\* The session emits 'close': the handler installed by the 'session' listener
\* runs first, then the callback a tryShutdown gave to session.close().
\* this.sessions.delete(session) of the session's 'close' handler.
sessionsAfterClose(s) == MapDelete(sessions, s)

SessionClose(s) ==
    /\ sess[s].st \in {"open", "closing", "destroyed"}
    /\ sess' = [sess EXCEPT ![s] =
                  IF @.accepted
                  THEN [@ EXCEPT !.st = "gone", !.child = FALSE, !.reg = FALSE, !.closeCb = <<>>]
                  ELSE [@ EXCEPT !.st = "gone", !.closeCb = <<>>]]
    /\ sessions' = IF sess[s].accepted THEN sessionsAfterClose(s) ELSE sessions
    /\ LET cb == sess[s].closeCb
           now == [shutdowns |-> shutdowns, serverRef |-> serverRef]
           after == IF cb # <<>> THEN maybeCallback(now, cb[1]) ELSE now
       IN  /\ shutdowns' = after.shutdowns
           /\ serverRef' = after.serverRef
    /\ UNCHANGED <<started, http2ServerList, sock, trace, ret>>
    /\ UNCHANGED <<registryVars, callVars, bindVars>>

(***************************************************************************)
(* Dispatch: the 'stream' listener of _setupHandlers and the four shape    *)
(* handlers.  A header value is a sequence of tokens standing for the      *)
(* characters of the string; an absent header is Undefined.                *)
(*                                                                         *)
(* calls[c]  http        "415" once stream.respond sent that status        *)
(*           lookedUp    this.handlers.get(path) was evaluated             *)
(*           callObj     "real": new Http2ServerCallStream(stream, handler)*)
(*                       "degenerate": the one built with a null handler   *)
(*           awaiting    handleUnary / handleServerStreaming is suspended  *)
(*                       at await call.receiveUnaryMessage()               *)
(*           cancelled   call.cancelled                                    *)
(*           invoked     number of calls of handler.func                   *)
(*           skipped     a shape handler returned without invoking         *)
(*           sentError   argument of call.sendError, <<>> if none          *)
(*           callEndArmed, streamEndArmed   the once-listeners still wait  *)
(***************************************************************************)
Undefined == [isString |-> FALSE, chars |-> <<>>]
Str(chars) == [isString |-> TRUE, chars |-> chars]
GrpcPrefix == <<"application", "/", "grpc">>

startsWith(chars, prefix) ==
    /\ Len(chars) >= Len(prefix)
    /\ SubSeq(chars, 1, Len(prefix)) = prefix

ContentTypes ==
    {Undefined,
     Str(<<"application", "/", "grpc">>),
     Str(<<"application", "/", "grpc", "+proto">>),
     Str(<<"application", "/", "json">>),
     Str(<<"application", "/">>)}

\* A content-type test without the typeof test: a missing header passes.
unsupportedOnlyIfString(contentType) ==
    /\ contentType.isString
    /\ ~startsWith(contentType.chars, GrpcPrefix)

\* The test of the 'stream' listener on the content-type header.
unsupportedMediaType(contentType) ==
    \/ ~contentType.isString
    \/ ~startsWith(contentType.chars, GrpcPrefix)

\* Handlers a server may hold when streams arrive: one path per streaming
\* shape, and one registered through register() with a type that is no shape.
DispatchHandlers ==
    LET h1 == register(EmptyMap, "/demo.S/Echo", UserFn("echo"), <<"ser", "raw">>, <<"de", "raw">>, "unary").handlers
        h2 == register(h1, "/demo.S/Feed", UserFn("feed"), <<"ser", "raw">>, <<"de", "raw">>, "clientStream").handlers
        h3 == register(h2, "/demo.S/Watch", UserFn("watch"), <<"ser", "raw">>, <<"de", "raw">>, "serverStream").handlers
        h4 == register(h3, "/demo.S/Chat", UserFn("chat"), <<"ser", "raw">>, <<"de", "raw">>, "bidi").handlers
    IN  register(h4, "/demo.S/Odd", UserFn("odd"), <<"ser", "raw">>, <<"de", "raw">>, "bogus").handlers
RequestPaths == DOMAIN DispatchHandlers \cup {"/demo.S/Missing"}

NoCall == [st |-> "none", session |-> 0, hasInfo |-> FALSE, http |-> "none",
           lookedUp |-> FALSE, callObj |-> "none", type |-> "none",
           awaiting |-> FALSE, cancelled |-> FALSE, invoked |-> 0, skipped |-> FALSE,
           sentError |-> <<>>, callEndArmed |-> FALSE, streamEndArmed |-> FALSE]
NewCallTracker == [callsStarted |-> 0, callsSucceeded |-> 0, callsFailed |-> 0]

\* A tracker whose addCallStarted counts nothing.
addCallStartedNot(tracker) == tracker

addCallStarted(tracker) == [tracker EXCEPT !.callsStarted = @ + 1]
addCallSucceeded(tracker) == [tracker EXCEPT !.callsSucceeded = @ + 1]
addCallFailed(tracker) == [tracker EXCEPT !.callsFailed = @ + 1]

\* channelzSessionInfo?.streamTracker.<counter> += 1 on the record of session s;
\* a record no longer in the map is out of every reader's reach.
bumpSession(m, s, defined, field) ==
    IF defined /\ s \in DOMAIN m
    THEN [m EXCEPT ![s] = [@ EXCEPT ![field] = @ + 1]]
    ELSE m

\* A status response that does not name the method.
getUnimplementedWithoutName(methodName) ==
    [code |-> "UNIMPLEMENTED",
     details |-> <<"The server does not implement the method ", "">>]

\* getUnimplementedStatusResponse(methodName)
getUnimplementedStatusResponse(methodName) ==
    [code |-> "UNIMPLEMENTED",
     details |-> <<"The server does not implement the method ", methodName>>]

\* A 'callEnd' listener that counts only the calls that end with OK.
onCallEndCountingOnlyOK(tracker, code) ==
    IF code = "OK" THEN addCallSucceeded(tracker) ELSE tracker

\* The 'callEnd' once-listener of the stream listener.
onCallEnd(tracker, code) ==
    IF code = "OK" THEN addCallSucceeded(tracker) ELSE addCallFailed(tracker)

\* The 'streamEnd' once-listener of the stream listener.
onStreamEnd(m, s, success) ==
    bumpSession(m, s, TRUE, IF success THEN "streamsSucceeded" ELSE "streamsFailed")

\* The call stream emits callEnd(code) and streamEnd(code = OK), as sendStatus
\* does (a cancelled stream emits them with CANCELLED and false): each
\* once-listener still installed runs and is removed.
emitEnd(st, c, code) ==
    LET cl == st.calls[c] IN
    [callTracker |-> IF cl.callEndArmed THEN onCallEnd(st.callTracker, code)
                     ELSE st.callTracker,
     sessions |-> IF cl.streamEndArmed THEN onStreamEnd(st.sessions, cl.session, code = "OK")
                  ELSE st.sessions,
     calls |-> [st.calls EXCEPT ![c] = [@ EXCEPT !.callEndArmed = FALSE,
                                                 !.streamEndArmed = FALSE]]]

\* call.sendError(err) on call c; an error without a code gets INTERNAL.
sendError(st, c, err) ==
    LET coded == IF err.code = "undefined" THEN [err EXCEPT !.code = "INTERNAL"] ELSE err
        sent == [st EXCEPT !.calls[c].sentError = <<coded.code, coded.details>>]
    IN  emitEnd(sent, c, coded.code)

NextStream == CHOOSE c \in StreamIds :
                 calls[c].st = "none" /\ \A d \in StreamIds : d < c => calls[d].st # "none"

\* What can go wrong while the stream listener runs: call.receiveMetadata
\* throws; call.cancelled is already set when a synchronous shape handler
\* tests it; handler.func throws synchronously.
Faults == {"none", "metaThrows", "cancelledEarly", "userThrows"}

\* What the stream listener does with the stream after the content type
\* passed: the try block and its catch.
dispatch(st, c, path, fault) ==
    LET looked == [st EXCEPT !.calls[c].lookedUp = TRUE] IN
    IF ~MapHas(handlers, path)
    THEN \* throw getUnimplementedStatusResponse(path); call is still null
         LET made == [looked EXCEPT !.calls[c].callObj = "degenerate",
                                    !.callTracker = addCallFailed(@),
                                    !.sessions = bumpSession(@, looked.calls[c].session,
                                                             looked.calls[c].hasInfo,
                                                             "streamsFailed")]
         IN  sendError(made, c, getUnimplementedStatusResponse(path))
    ELSE LET handler == handlers[path]
             made == [looked EXCEPT !.calls[c].callObj = "real",
                                    !.calls[c].type = handler.type,
                                    !.calls[c].callEndArmed = TRUE,
                                    !.calls[c].streamEndArmed = looked.calls[c].hasInfo]
             internal == [code |-> "undefined", details |-> <<"thrown">>]
         IN  IF fault = "metaThrows" THEN sendError(made, c, internal)
             ELSE IF handler.type \in {"unary", "serverStream"}
             THEN [made EXCEPT !.calls[c].awaiting = TRUE]
             ELSE IF handler.type \in {"clientStream", "bidi"}
             THEN IF fault = "cancelledEarly"
                  THEN [made EXCEPT !.calls[c].cancelled = TRUE, !.calls[c].skipped = TRUE]
                  ELSE LET ran == [made EXCEPT !.calls[c].invoked = @ + 1] IN
                       IF fault = "userThrows" THEN sendError(ran, c, internal) ELSE ran
             ELSE \* throw new Error(`Unknown handler type: ${handler.type}`)
                  sendError(made, c, internal)

StreamArrive(s, contentType, path, fault) ==
    /\ \E c \in StreamIds : calls[c].st = "none"
    /\ sess[s].st \in {"open", "closing"}
    /\ LET c == NextStream
           defined == MapHas(sessions, s)
           arrived == [callTracker |-> addCallStarted(callTracker),
                       sessions |-> bumpSession(sessions, s, defined, "streamsStarted"),
                       calls |-> [calls EXCEPT ![c] = [NoCall EXCEPT !.st = "arrived",
                                                                      !.session = s,
                                                                      !.hasInfo = defined]]]
           after ==
             IF unsupportedMediaType(contentType)
             THEN [arrived EXCEPT !.calls[c].http = "415",
                                  !.callTracker = addCallFailed(@),
                                  !.sessions = bumpSession(@, s, defined, "streamsFailed")]
             ELSE dispatch(arrived, c, path, fault)
       IN  /\ callTracker' = after.callTracker
           /\ sessions' = after.sessions
           /\ calls' = after.calls
    /\ UNCHANGED <<started, http2ServerList, sock, sess, shutdowns, serverRef, trace, ret>>
    /\ UNCHANGED <<registryVars, bindVars>>

\* A resumption that tests the request only, not call.cancelled.
FirstMessageIgnoringCancelled(c, hasRequest) ==
    /\ calls[c].awaiting
    /\ calls' = [calls EXCEPT ![c] =
                   IF ~hasRequest
                   THEN [@ EXCEPT !.awaiting = FALSE, !.skipped = TRUE]
                   ELSE [@ EXCEPT !.awaiting = FALSE, !.invoked = @ + 1]]
    /\ UNCHANGED <<callTracker, lifeVars, registryVars, bindVars, ret>>

\* await call.receiveUnaryMessage() resumes in handleUnary or
\* handleServerStreaming, with a request or with undefined.
FirstMessage(c, hasRequest) ==
    /\ calls[c].awaiting
    /\ calls' = [calls EXCEPT ![c] =
                   IF ~hasRequest \/ @.cancelled
                   THEN [@ EXCEPT !.awaiting = FALSE, !.skipped = TRUE]
                   ELSE [@ EXCEPT !.awaiting = FALSE, !.invoked = @ + 1]]
    /\ UNCHANGED <<callTracker, lifeVars, registryVars, bindVars, ret>>

\* The peer cancels the stream: the call stream sets cancelled and emits its
\* end events with status CANCELLED.
CallCancelled(c) ==
    /\ calls[c].callObj = "real"
    /\ calls[c].callEndArmed
    /\ ~calls[c].cancelled
    /\ LET now == [callTracker |-> callTracker, sessions |-> sessions,
                   calls |-> [calls EXCEPT ![c].cancelled = TRUE]]
           after == emitEnd(now, c, "CANCELLED")
       IN  /\ callTracker' = after.callTracker
           /\ sessions' = after.sessions
           /\ calls' = after.calls
    /\ UNCHANGED <<started, http2ServerList, sock, sess, shutdowns, serverRef, trace, ret>>
    /\ UNCHANGED <<registryVars, bindVars>>

\* The call sends its final status (the user handler replied, or the call
\* stream failed the call on its own).
CallFinished(c, code) ==
    /\ calls[c].callObj = "real"
    /\ calls[c].callEndArmed
    /\ LET now == [callTracker |-> callTracker, sessions |-> sessions, calls |-> calls]
           after == emitEnd(now, c, code)
       IN  /\ callTracker' = after.callTracker
           /\ sessions' = after.sessions
           /\ calls' = after.calls
    /\ UNCHANGED <<started, http2ServerList, sock, sess, shutdowns, serverRef, trace, ret>>
    /\ UNCHANGED <<registryVars, bindVars>>

(***************************************************************************)
(* Bind engine: bindAsync, its resolver listener, bindSpecificPort and     *)
(* bindWildcardPort.  A promise's continuation runs before the event loop  *)
(* takes the next event, so the aggregation and the reply policy belong to *)
(* the action of the listen or error callback that settles the last        *)
(* promise; the user callback runs in a later tick (deferredCallback).     *)
(* The record describes the latest bindAsync call; the caller makes the    *)
(* next call once the earlier one has nothing left in flight.              *)
(*                                                                         *)
(* bind  active     a bindAsync call passed its argument checks            *)
(*       resolved   onSuccessfulResolution was replaced by the no-op       *)
(*       events     resolver events delivered so far                       *)
(*       addrs      the address list acted on                              *)
(*       mode       "wildcard" | "specific" once binding began             *)
(*       portNum, previousCount   arguments of bindSpecificPort            *)
(*       from       first index of addrs handed to the running round       *)
(*       socks      addrs index -> http2 server id, 0 if none              *)
(*       results    addrs index -> <<>> | <<"error">> | <<"port", n>>      *)
(*       appended   listeners this call pushed on http2ServerList          *)
(*       logs       lines written with logging.log                         *)
(*       queued     callback arguments waiting for the next tick           *)
(*       delivered  callback arguments the user callback received          *)
(***************************************************************************)
TcpAddr(port) == [tcp |-> TRUE, port |-> port]
UnixAddr == [tcp |-> FALSE, port |-> 0]
ExplicitPorts == {8080}
EphemeralPorts == {40001}
TcpAddrs == {TcpAddr(p) : p \in {0} \cup ExplicitPorts}

SeqsUpTo(S, n) == UNION {[1..m -> S] : m \in 0..n}
\* The address lists a resolver hands over: TCP addresses, or socket paths.
AddressLists == SeqsUpTo(TcpAddrs, MaxAddrs) \cup SeqsUpTo({UnixAddr}, MaxAddrs)

NewBind == [active |-> FALSE, resolved |-> FALSE, events |-> 0, addrs |-> <<>>,
            mode |-> "none", portNum |-> 0, previousCount |-> 0, from |-> 1,
            socks |-> <<>>, results |-> <<>>, appended |-> 0,
            logs |-> <<>>, queued |-> <<>>, delivered |-> <<>>]

CallbackArgs(error, port) == [error |-> error, port |-> port]
NoAddressAdded(n) == <<"No address added out of total ", n, " resolved">>
OnlySomeAdded(count, n) == <<"WARNING Only ", count, " addresses added out of total ", n, " resolved">>

\* deferredCallback(error, port)
deferredCallback(bd, error, port) ==
    [bd EXCEPT !.queued = Append(@, CallbackArgs(error, port))]

UnusedSocks(sk) == {k \in SockIds : sk[k].st = "unused"}
\* setupServer(): the i-th http2 server object made from now on.
FreshSock(sk, i) == CHOOSE k \in UnusedSocks(sk) : Cardinality({j \in UnusedSocks(sk) : j < k}) = i - 1

\* A reply policy that reports failure unless every address was bound.
onBindResultAllOrNothing(bd, bindResult) ==
    LET n == Len(bd.addrs) IN
    IF bindResult.count < n
    THEN deferredCallback([bd EXCEPT !.logs = Append(@, <<"ERROR", NoAddressAdded(n)>>)],
                          NoAddressAdded(n), 0)
    ELSE deferredCallback(bd, <<>>, bindResult.port)

\* The continuation of bindResultPromise: the reply policy.
onBindResult(bd, bindResult) ==
    LET n == Len(bd.addrs) IN
    IF bindResult.count = 0
    THEN deferredCallback([bd EXCEPT !.logs = Append(@, <<"ERROR", NoAddressAdded(n)>>)],
                          NoAddressAdded(n), 0)
    ELSE deferredCallback(
             IF bindResult.count < n
             THEN [bd EXCEPT !.logs = Append(@, <<"INFO", OnlySomeAdded(bindResult.count, n)>>)]
             ELSE bd,
             <<>>, bindResult.port)

\* The rejection handler of bindResultPromise.
onBindRejected(bd) ==
    LET n == Len(bd.addrs) IN
    deferredCallback([bd EXCEPT !.logs = Append(@, <<"ERROR", NoAddressAdded(n)>>)],
                     NoAddressAdded(n), 0)

\* The continuation of Promise.all in bindSpecificPort, once every address of
\* the round has a result.
aggregate(bd) ==
    LET round == bd.from..Len(bd.addrs)
        ok == {i \in round : bd.results[i] # <<"error">>}
        mismatch == \E i \in ok : bd.results[i][2] # bd.portNum
    IN  IF mismatch THEN onBindRejected(bd)
        ELSE onBindResult(bd, [port |-> bd.portNum,
                               count |-> Cardinality(ok) + bd.previousCount])

\* bindSpecificPort(addressList.slice(from - 1), portNum, previousCount): one
\* http2 server per address, all told to listen.
bindSpecificPort(st, from, portNum, previousCount) ==
    LET bd == [st.bind EXCEPT !.mode = "specific", !.portNum = portNum,
                              !.previousCount = previousCount, !.from = from]
        n == Len(bd.addrs)
    IN  IF from > n
        THEN [st EXCEPT !.bind = onBindResult(bd, [port |-> portNum, count |-> previousCount])]
        ELSE [st EXCEPT
                !.bind = [bd EXCEPT !.socks = [i \in 1..n |->
                                      IF i >= from THEN FreshSock(st.sock, i - from + 1)
                                      ELSE bd.socks[i]]],
                !.sock = [k \in SockIds |->
                            IF \E i \in 1..(n - from + 1) : k = FreshSock(st.sock, i)
                            THEN [st.sock[k] EXCEPT !.st = "binding"]
                            ELSE st.sock[k]]]

\* A bindWildcardPort that gives up without trying an address.
bindWildcardPortGivingUp(st, from) ==
    [st EXCEPT !.bind = onBindResult([st.bind EXCEPT !.mode = "wildcard", !.from = from],
                                     [port |-> 0, count |-> 0])]

\* bindWildcardPort(addressList.slice(from - 1))
bindWildcardPort(st, from) ==
    LET bd == [st.bind EXCEPT !.mode = "wildcard", !.from = from]
        n == Len(bd.addrs)
    IN  IF from > n
        THEN [st EXCEPT !.bind = onBindResult(bd, [port |-> 0, count |-> 0])]
        ELSE LET k == FreshSock(st.sock, 1) IN
             [st EXCEPT !.bind = [bd EXCEPT !.socks[from] = k],
                        !.sock[k].st = "binding"]

BindArgs == {"ok", "port not a string", "no credentials", "no callback", "unparsable port"}

bindAsyncError(arg) ==
    IF started = TRUE THEN <<"server is already started">>
    ELSE IF arg = "port not a string" THEN <<"port must be a string">>
    ELSE IF arg = "no credentials" THEN <<"creds must be a ServerCredentials object">>
    ELSE IF arg = "no callback" THEN <<"callback must be a function">>
    ELSE IF arg = "unparsable port" THEN <<"Could not parse port">>
    ELSE <<>>

\* Nothing of the latest bindAsync call is still in flight.
BindQuiet ==
    /\ bind.queued = <<>>
    /\ \A k \in SockIds : sock[k].st # "binding"

BindAsync(arg) ==
    /\ bindCalls < MaxBinds
    /\ BindQuiet
    /\ IF bindAsyncError(arg) # <<>>
       THEN /\ ret' = Threw("bindAsync", bindAsyncError(arg))
            /\ UNCHANGED <<bind, bindCalls>>
       ELSE /\ ret' = Returned("bindAsync", <<>>)
            /\ bind' = [NewBind EXCEPT !.active = TRUE]
            /\ bindCalls' = bindCalls + 1
    /\ UNCHANGED <<lifeVars, registryVars, callVars>>

\* A listener that keeps its first onSuccessfulResolution for every result.
resolutionNeverDiscarded(bd) == FALSE

\* Whether resolverListener.onSuccessfulResolution is the no-op by now: the
\* first result replaced it.
resolutionDiscarded(bd) == bd.resolved

\* The resolver calls resolverListener.onSuccessfulResolution(addressList).
ResolveSuccess(addressList) ==
    /\ bind.active
    /\ bind.events < MaxResolverEvents
    /\ Cardinality(UnusedSocks(sock)) >= Len(addressList)
    /\ LET now == [bind |-> [bind EXCEPT !.events = @ + 1], sock |-> sock]
           taken == [now EXCEPT !.bind.resolved = TRUE,
                                !.bind.addrs = addressList,
                                !.bind.socks = [i \in 1..Len(addressList) |-> 0],
                                !.bind.results = [i \in 1..Len(addressList) |-> <<>>]]
           after ==
             IF resolutionDiscarded(bind) THEN now
             ELSE IF Len(addressList) = 0
             THEN [taken EXCEPT !.bind =
                      deferredCallback(@, <<"No addresses resolved for port">>, 0)]
             ELSE IF addressList[1].tcp
             THEN IF addressList[1].port = 0
                  THEN bindWildcardPort(taken, 1)
                  ELSE bindSpecificPort(taken, 1, addressList[1].port, 0)
             ELSE bindSpecificPort(taken, 1, 1, 0)
       IN  /\ bind' = after.bind
           /\ sock' = after.sock
    /\ UNCHANGED <<started, http2ServerList, sessions, sess, shutdowns, serverRef, trace, ret>>
    /\ UNCHANGED <<registryVars, callVars, bindCalls>>

\* The resolver calls resolverListener.onError(error).
ResolveError ==
    /\ bind.active
    /\ bind.events < MaxResolverEvents
    /\ bind' = deferredCallback([bind EXCEPT !.events = @ + 1], <<"resolver error details">>, 0)
    /\ UNCHANGED <<lifeVars, registryVars, callVars, ret, bindCalls>>

\* The address index an http2 server object in "binding" was made for.
IndexOf(k) == CHOOSE i \in 1..Len(bind.socks) : bind.socks[i] = k

RoundDone(bd) == \A i \in bd.from..Len(bd.addrs) : bd.results[i] # <<>>

\* The port http2Server.address() reports once http2 server k listens: the
\* port asked for, or one the system picked when 0 was asked for.
BoundPorts(bd, i) ==
    IF bd.mode = "wildcard"
    THEN IF bd.addrs[i].port = 0 THEN EphemeralPorts ELSE {bd.addrs[i].port}
    ELSE {bd.portNum}

\* The callback given to http2Server.listen() runs for http2 server k, and
\* http2Server.address() reports the port 'port'.
ListenOk(k, port) ==
    /\ sock[k].st = "binding"
    /\ LET i == IndexOf(k)
           \* 'port' in boundSubchannelAddress ? boundSubchannelAddress.port : portNum
           result == IF bind.addrs[i].tcp THEN port ELSE bind.portNum
           bound == [bind |-> [bind EXCEPT !.appended = @ + 1,
                                           !.results[i] = <<"port", result>>],
                     sock |-> [sock EXCEPT ![k] = [@ EXCEPT !.st = "listening",
                                                         !.reg = TRUE, !.child = TRUE]]]
           after ==
             IF bind.mode = "wildcard"
             THEN bindSpecificPort(bound, i + 1, port, 1)
             ELSE IF RoundDone(bound.bind)
             THEN [bound EXCEPT !.bind = aggregate(@)]
             ELSE bound
       IN  /\ bind.mode = "wildcard" => Cardinality(UnusedSocks(sock)) >= Len(bind.addrs) - i
           /\ bind' = after.bind
           /\ sock' = after.sock
    /\ http2ServerList' = Append(http2ServerList, k)
    /\ UNCHANGED <<started, sessions, sess, shutdowns, serverRef, trace, ret>>
    /\ UNCHANGED <<registryVars, callVars, bindCalls>>

\* The listen callback runs on a system that binds the port it was asked for.
ListenOkAsAsked(k, port) ==
    /\ sock[k].st = "binding"
    /\ port \in BoundPorts(bind, IndexOf(k))
    /\ ListenOk(k, port)

\* The 'error' listener (onError) runs for http2 server k.
ListenError(k) ==
    /\ sock[k].st = "binding"
    /\ LET i == IndexOf(k)
           failed == [bind |-> [bind EXCEPT !.results[i] = <<"error">>],
                      sock |-> [sock EXCEPT ![k].st = "failed"]]
           after ==
             IF bind.mode = "wildcard"
             THEN bindWildcardPort(failed, i + 1)
             ELSE IF RoundDone(failed.bind)
             THEN [failed EXCEPT !.bind = aggregate(@)]
             ELSE failed
       IN  /\ (bind.mode = "wildcard" /\ i < Len(bind.addrs)) => UnusedSocks(failed.sock) # {}
           /\ bind' = after.bind
           /\ sock' = after.sock
    /\ UNCHANGED <<started, http2ServerList, sessions, sess, shutdowns, serverRef, trace, ret>>
    /\ UNCHANGED <<registryVars, callVars, bindCalls>>

\* The next tick after deferredCallback: the user callback of bindAsync runs.
BindCallback ==
    /\ bind.queued # <<>>
    /\ bind' = [bind EXCEPT !.queued = Tail(@), !.delivered = Append(@, bind.queued[1])]
    /\ UNCHANGED <<lifeVars, registryVars, callVars, ret, bindCalls>>

(***************************************************************************)
(* Initial states and specifications                                       *)
(***************************************************************************)
\* The state the constructor leaves.
Init ==
    /\ handlers = EmptyMap
    /\ ret = Returned("constructor", <<>>)
    /\ started = FALSE
    /\ http2ServerList = <<>>
    /\ sock = [k \in SockIds |-> NoSock]
    /\ sessions = EmptyMap
    /\ sess = [s \in SessIds |-> NoSess]
    /\ shutdowns = <<>>
    /\ serverRef = [registered |-> TRUE, unregisterCalls |-> 0]
    /\ trace = 0
    /\ callTracker = NewCallTracker
    /\ calls = [c \in StreamIds |-> NoCall]
    /\ bind = NewBind
    /\ bindCalls = 0

\* Handler registry alone.
NextRegistry ==
    \/ \E p \in Paths, f \in Funcs, t \in TypeStrings : Register(p, f, t)
    \/ \E p \in Paths : Unregister(p)
    \/ \E sv \in Services, im \in Implementations : AddService(sv, im)
    \/ \E sv \in Services : RemoveService(sv)

SpecRegistry == Init /\ [][NextRegistry]_vars

BoundSock == [st |-> "listening", reg |-> TRUE, child |-> TRUE, closeCb |-> <<>>]

\* A constructed server on which bindAsync calls have bound n sockets.
InitLife ==
    \E n \in 1..MaxSockets :
        /\ handlers = EmptyMap
        /\ ret = Returned("constructor", <<>>)
        /\ started = FALSE
        /\ http2ServerList = [i \in 1..n |-> i]
        /\ sock = [k \in SockIds |-> IF k <= n THEN BoundSock ELSE NoSock]
        /\ sessions = EmptyMap
        /\ sess = [s \in SessIds |-> NoSess]
        /\ shutdowns = <<>>
        /\ serverRef = [registered |-> TRUE, unregisterCalls |-> 0]
        /\ trace = 0
        /\ callTracker = NewCallTracker
        /\ calls = [c \in StreamIds |-> NoCall]
        /\ bind = NewBind
        /\ bindCalls = 0

NextLife ==
    \/ Start
    \/ ForceShutdown
    \/ TryShutdown
    \/ \E k \in SockIds : ListenerClosed(k)
    \/ SessionArrive
    \/ \E s \in SessIds : SessionClose(s)

SpecLife == InitLife /\ [][NextLife]_vars

\* Binding, starting and shutting down a server that nobody connects to.
NextBind ==
    \/ \E arg \in BindArgs : BindAsync(arg)
    \/ \E al \in AddressLists : ResolveSuccess(al)
    \/ ResolveError
    \/ \E k \in SockIds, p \in ExplicitPorts \cup EphemeralPorts : ListenOkAsAsked(k, p)
    \/ \E k \in SockIds : ListenError(k)
    \/ BindCallback
    \/ Start
    \/ ForceShutdown

SpecBind == Init /\ [][NextBind]_vars

\* A server with one bound socket and the handlers above, after start().
InitCalls ==
    /\ handlers = DispatchHandlers
    /\ ret = Returned("start", <<>>)
    /\ started = TRUE
    /\ http2ServerList = <<1>>
    /\ sock = [k \in SockIds |-> IF k = 1 THEN BoundSock ELSE NoSock]
    /\ sessions = EmptyMap
    /\ sess = [s \in SessIds |-> NoSess]
    /\ shutdowns = <<>>
    /\ serverRef = [registered |-> TRUE, unregisterCalls |-> 0]
    /\ trace = 1
    /\ callTracker = NewCallTracker
    /\ calls = [c \in StreamIds |-> NoCall]
    /\ bind = NewBind
    /\ bindCalls = 0

StatusCodes == {"OK", "UNKNOWN"}

NextCalls ==
    \/ SessionArrive
    \/ \E s \in SessIds : SessionClose(s)
    \/ \E s \in SessIds, ct \in ContentTypes, p \in RequestPaths, ft \in Faults :
          StreamArrive(s, ct, p, ft)
    \/ \E c \in StreamIds, hasRequest \in BOOLEAN : FirstMessage(c, hasRequest)
    \/ \E c \in StreamIds : CallCancelled(c)
    \/ \E c \in StreamIds, code \in StatusCodes : CallFinished(c, code)

SpecCalls == InitCalls /\ [][NextCalls]_vars

(***************************************************************************)
(* Claims about the lifecycle (checked under SpecLife)                     *)
(***************************************************************************)
Called(t) == shutdowns[t].called > 0

\* A close the server requested whose completion has not run yet: a listening
\* socket's close(cb), or the 'close' event of an accepted session that a
\* shutdown closed or destroyed.
CloseOutstanding ==
    \/ \E k \in SockIds : sock[k].st = "closing"
    \/ \E s \in SessIds : sess[s].accepted /\ sess[s].st \in {"closing", "destroyed"}

\* C2: the callback of every tryShutdown call, also of one made while an
\* earlier shutdown is pending, is invoked only once no listener close and no
\* session close of the server is outstanding.
C2_CallbackOnlyAfterCloses ==
    \A t \in 1..Len(shutdowns) : Called(t) => ~CloseOutstanding

\* C3: over any interleaving of tryShutdown and forceShutdown calls the
\* server's own channelz ref is unregistered at most once.
C3_ServerRefUnregisteredAtMostOnce ==
    serverRef.unregisterCalls <= 1

\* C4: when forceShutdown returns, started is false, the sessions map is
\* empty, every session that was in the map is destroyed with the CANCEL code,
\* no socket of the listener list is still listening (close was requested on
\* each that was), and the server's channelz ref is unregistered.
C4_ForceShutdownPostState ==
    [][ForceShutdown =>
         /\ started' = FALSE
         /\ sessions' = EmptyMap
         /\ \A s \in DOMAIN sessions :
                sess'[s].st = "destroyed" /\ sess'[s].code = "CANCEL"
         /\ \A k \in Listed :
                /\ ~(sock'[k].st = "listening")
                /\ listening(k) => sock'[k].st = "closing"
         /\ serverRef'.registered = FALSE]_vars

C4_Witness ==
    /\ ret.op = "forceShutdown"
    /\ \E s \in SessIds : sess[s].st = "destroyed" /\ sess[s].code = "CANCEL"
    /\ \E k \in SockIds : sock[k].closeCb = <<"force">>
    /\ sessions = EmptyMap

\* C5: a session that arrives while started is false is destroyed at once and
\* never enters the sessions map, never has a channelz ref and never is a
\* child of the server; no step taken while started is false adds an entry
\* to the sessions map.
C5_NotStartedSessionRejected ==
    /\ [](\A s \in SessIds :
            (sess[s].st # "none" /\ ~sess[s].accepted) =>
                /\ sess[s].st \in {"destroyed", "gone"}
                /\ s \notin DOMAIN sessions
                /\ ~sess[s].reg /\ ~sess[s].child)
    /\ [][/\ ~started => DOMAIN sessions' \subseteq DOMAIN sessions
          /\ (SessionArrive /\ ~started) =>
                /\ sess'[NextSession].st = "destroyed"
                /\ ~sess'[NextSession].accepted]_vars

C5_Witness ==
    /\ Len(shutdowns) > 0
    /\ \E s \in SessIds : sess[s].st = "destroyed" /\ sess[s].code = "NO_ERROR"
    /\ \E s \in SessIds : sess[s].st = "gone" /\ ~sess[s].accepted

\* C6 as stated: the sessions map holds the entry of an accepted session from
\* its acceptance until its 'close' event.
C6_EntryUntilCloseEvent ==
    \A s \in SessIds :
        (sess[s].accepted /\ sess[s].st # "gone") => s \in DOMAIN sessions

\* C6 as amended: the sessions map holds the entry of an accepted session
\* exactly from its acceptance until it closes or a forceShutdown destroys it
\* (clearing the map), never after its 'close' event; an entry in the map has
\* its channelz ref registered and referenced as a child of the server.
C6_EntryWhileLive ==
    \A s \in SessIds :
        /\ s \in DOMAIN sessions <=> (sess[s].accepted /\ sess[s].st \in {"open", "closing"})
        /\ sess[s].st = "gone" => s \notin DOMAIN sessions
        /\ s \in DOMAIN sessions => (sess[s].reg /\ sess[s].child)

C6_Witness ==
    /\ \E s \in SessIds : sess[s].accepted /\ sess[s].st = "gone"
    /\ \E s \in SessIds : sess[s].accepted /\ sess[s].st = "closing" /\ s \in DOMAIN sessions

(***************************************************************************)
(* Claims about the handler registry (checked under SpecRegistry)          *)
(***************************************************************************)
\* C7: register(p, ...) returns false exactly when p is already in the
\* handler map, and then leaves the map unchanged; otherwise it returns true
\* and the map gains exactly the entry for p.  Whatever sequence of register,
\* unregister, addService and removeService ran, the entry under a path is
\* the one handler whose path it is.
C7_RegisterNoOverwrite ==
    /\ [](\A p \in DOMAIN handlers : handlers[p].path = p)
    /\ [][\A p \in Paths, f \in Funcs, t \in TypeStrings :
            Register(p, f, t) =>
                IF p \in DOMAIN handlers
                THEN /\ ret'.val = FALSE
                     /\ handlers' = handlers
                ELSE /\ ret'.val = TRUE
                     /\ DOMAIN handlers' = DOMAIN handlers \cup {p}
                     /\ \A q \in DOMAIN handlers : handlers'[q] = handlers[q]
                     /\ handlers'[p].func = f
                     /\ handlers'[p].type = t
                     /\ handlers'[p].path = p]_vars

C7_Witness ==
    /\ ret.op = "register"
    /\ ret.val = FALSE
    /\ \E p \in DOMAIN handlers : handlers[p].func.kind = "default"

(***************************************************************************)
(* Claims about start and the bind engine (checked under SpecBind)         *)
(***************************************************************************)
\* C8: start() throws and leaves started and the trace unchanged when the
\* listener list is empty, when no listener of the list is listening, or when
\* started is already true; in every other state it sets started and adds one
\* 'Starting' trace entry.  started is true only if the listener list is not
\* empty.
C8_StartOutcome ==
    /\ [](started => Len(http2ServerList) >= 1)
    /\ [][Start =>
            IF \/ Len(http2ServerList) = 0
               \/ ~(\E i \in 1..Len(http2ServerList) : sock[http2ServerList[i]].st = "listening")
               \/ started
            THEN /\ ret'.op = "start" /\ ret'.threw
                 /\ started' = started
                 /\ trace' = trace
            ELSE /\ ret'.op = "start" /\ ~ret'.threw
                 /\ started' = TRUE
                 /\ trace' = trace + 1]_vars

\* start() succeeded once and, after a forceShutdown left no listener
\* listening, failed.
C8_Witness ==
    /\ trace = 1
    /\ ~started
    /\ Len(http2ServerList) >= 1
    /\ ret.op = "start" /\ ret.threw

\* The replies of the latest bindAsync call to its address list: every
\* callback queued or delivered but the ones resolverListener.onError made.
OwnReply(r) == r.error # <<"resolver error details">>
OwnReplies == SelectSeq(bind.delivered \o bind.queued, OwnReply)
BoundAddrs == {i \in 1..Len(bind.addrs) :
                 bind.results[i] # <<>> /\ bind.results[i] # <<"error">>}
AllSettled == \A i \in 1..Len(bind.addrs) : bind.results[i] # <<>>
PartialLogs == {l \in 1..Len(bind.logs) : bind.logs[l][1] = "INFO"}

\* C9: for a bindAsync whose resolver returned N >= 1 addresses, with count
\* the number of addresses that bound: the callback gets the error 'No address
\* added out of total N resolved' and port 0 exactly when count is 0, gets no
\* error and the common bound port when 0 < count <= N, a partial-bind line
\* is logged exactly when 0 < count < N, and count is the number of listeners
\* the call appended to the listener list.
C9_ReplyPolicy ==
    LET N == Len(bind.addrs)
        count == Cardinality(BoundAddrs)
    IN  /\ count = bind.appended
        /\ (bind.resolved /\ N >= 1 /\ ~AllSettled) => (OwnReplies = <<>> /\ PartialLogs = {})
        /\ (bind.resolved /\ N >= 1 /\ AllSettled) =>
              /\ Len(OwnReplies) = 1
              /\ (count = 0) <=> (OwnReplies[1] = CallbackArgs(NoAddressAdded(N), 0))
              /\ (count > 0) =>
                    /\ OwnReplies[1].error = <<>>
                    /\ \A i \in BoundAddrs : bind.results[i][2] = OwnReplies[1].port
              /\ (PartialLogs # {}) <=> (0 < count /\ count < N)
              /\ \A l \in PartialLogs : bind.logs[l][2] = OnlySomeAdded(count, N)

\* One of two addresses bound, and the callback was told the port.
C9_Witness ==
    /\ Len(bind.addrs) = 2
    /\ bind.appended = 1
    /\ Len(http2ServerList) = 1
    /\ PartialLogs # {}
    /\ \E d \in 1..Len(bind.delivered) :
          bind.delivered[d].error = <<>> /\ bind.delivered[d].port \in ExplicitPorts

(***************************************************************************)
(* Claims about dispatch (checked under SpecCalls)                         *)
(***************************************************************************)
Arrived == {c \in StreamIds : calls[c].st # "none"}
\* A call is in flight while its 'callEnd' listener waits.
InFlight == {c \in StreamIds : calls[c].callEndArmed}

\* C1: callsSucceeded + callsFailed <= callsStarted, with equality when no
\* call is in flight: every stream adds one to callsStarted when it arrives
\* and one to callsSucceeded or callsFailed when it ends, whichever way it
\* ends.
C1_CountersBalance ==
    /\ callTracker.callsStarted = Cardinality(Arrived)
    /\ callTracker.callsSucceeded + callTracker.callsFailed + Cardinality(InFlight)
         = callTracker.callsStarted
    /\ callTracker.callsSucceeded + callTracker.callsFailed <= callTracker.callsStarted

\* A call whose call object existed ended with an error sent from the catch
\* block and was counted as failed once.
C1_Witness ==
    /\ InFlight = {}
    /\ callTracker.callsFailed = 1
    /\ callTracker.callsStarted = 1
    /\ \E c \in StreamIds :
          /\ calls[c].callObj = "real"
          /\ calls[c].sentError # <<>>
          /\ calls[c].sentError[1] = "INTERNAL"

NotGrpc(contentType) ==
    \/ contentType = Undefined
    \/ Len(contentType.chars) < 3
    \/ contentType.chars[1] # "application"
    \/ contentType.chars[2] # "/"
    \/ contentType.chars[3] # "grpc"

\* C10: a stream whose content-type header is missing or does not begin with
\* 'application/grpc' is answered with status 415 and ended; callsFailed of
\* the server and streamsFailed of its session go up by one, once; no handler
\* is looked up or invoked and no call object is made.
C10_UnsupportedMediaType ==
    /\ [](\A c \in StreamIds :
            calls[c].http = "415" =>
                /\ ~calls[c].lookedUp
                /\ calls[c].callObj = "none"
                /\ calls[c].invoked = 0
                /\ ~calls[c].awaiting
                /\ ~calls[c].callEndArmed /\ ~calls[c].streamEndArmed
                /\ calls[c].sentError = <<>>)
    /\ [][\A s \in SessIds :
            (\E c \in StreamIds : calls[c].st = "none" /\ calls'[c].session = s) =>
            \A ct \in {x \in ContentTypes : NotGrpc(x)} :
            \A p \in RequestPaths, ft \in Faults :
            StreamArrive(s, ct, p, ft) =>
                /\ calls'[NextStream].http = "415"
                /\ callTracker' = [callTracker EXCEPT !.callsStarted = @ + 1,
                                                      !.callsFailed = @ + 1]
                /\ s \in DOMAIN sessions
                /\ sessions' = [sessions EXCEPT ![s] =
                                  [@ EXCEPT !.streamsStarted = @ + 1,
                                            !.streamsFailed = @ + 1]]]_vars

C10_Witness ==
    \E c \in StreamIds :
        /\ calls[c].http = "415"
        /\ callTracker.callsFailed = 1
        /\ calls[c].session \in DOMAIN sessions
        /\ sessions[calls[c].session].streamsFailed = 1
        /\ sessions[calls[c].session].streamsSucceeded = 0

\* C11: a stream with a valid content type whose :path is not in the handler
\* map when it arrives is answered with status UNIMPLEMENTED and the details
\* 'The server does not implement the method <path>'; no user handler is
\* invoked; callsFailed of the server and streamsFailed of its session go up
\* by one, once.
C11_UnimplementedPath ==
    /\ [](\A c \in StreamIds :
            calls[c].callObj = "degenerate" =>
                /\ calls[c].invoked = 0
                /\ ~calls[c].awaiting
                /\ ~calls[c].callEndArmed /\ ~calls[c].streamEndArmed)
    /\ [][\A s \in SessIds :
            (\E c \in StreamIds : calls[c].st = "none" /\ calls'[c].session = s) =>
            \A p \in {x \in RequestPaths : x \notin DOMAIN handlers} :
            \A ct \in {x \in ContentTypes : ~NotGrpc(x)}, ft \in Faults :
            StreamArrive(s, ct, p, ft) =>
                /\ calls'[NextStream].sentError =
                      <<"UNIMPLEMENTED", <<"The server does not implement the method ", p>>>>
                /\ calls'[NextStream].http = "none"
                /\ calls'[NextStream].invoked = 0
                /\ callTracker' = [callTracker EXCEPT !.callsStarted = @ + 1,
                                                      !.callsFailed = @ + 1]
                /\ s \in DOMAIN sessions
                /\ sessions' = [sessions EXCEPT ![s] =
                                  [@ EXCEPT !.streamsStarted = @ + 1,
                                            !.streamsFailed = @ + 1]]]_vars

C11_Witness ==
    \E c \in StreamIds :
        /\ calls[c].sentError # <<>>
        /\ calls[c].sentError[1] = "UNIMPLEMENTED"
        /\ calls[c].sentError[2][2] = "/demo.S/Missing"
        /\ callTracker.callsFailed = 1
        /\ calls[c].session \in DOMAIN sessions
        /\ sessions[calls[c].session].streamsFailed = 1

(***************************************************************************)
(* Claims about addService and removeService (checked under SpecRegistry)  *)
(***************************************************************************)
PathsOf(service) == {service.v[i].path : i \in 1..Len(service.v)}
DistinctPaths(service) ==
    \A i, j \in 1..Len(service.v) : service.v[i].path = service.v[j].path => i = j

\* C12: for a service definition S and an implementation I whose paths are
\* distinct and not registered, addService(S, I), removeService(S),
\* addService(S, I) succeeds both times and ends with the handler map the
\* first addService left; removeService(S) gives back the map from before
\* the first addService.
C12_AddRemoveAdd ==
    \A S \in Services, I \in Implementations :
        (/\ S.isObject /\ I.isObject /\ Len(S.v) > 0
         /\ DistinctPaths(S)
         /\ PathsOf(S) \cap DOMAIN handlers = {}) =>
            LET first == addService(handlers, S, I)
                removed == removeService(first.handlers, S)
                second == addService(removed.handlers, S, I)
            IN  /\ ~first.threw
                /\ DOMAIN first.handlers = DOMAIN handlers \cup PathsOf(S)
                /\ ~removed.threw
                /\ removed.handlers = handlers
                /\ ~second.threw
                /\ second.handlers = first.handlers

\* addService(SvcDemo, I) succeeded on a server that holds another handler,
\* and the map is the one removeService(SvcDemo), addService(SvcDemo, I)
\* gives again.
C12_Witness ==
    /\ ret = Returned("addService", <<>>)
    /\ DOMAIN handlers = PathsOf(SvcDemo) \cup PathsOf(SvcWatch)
    /\ handlers = addService(removeService(handlers, SvcDemo).handlers, SvcDemo, ImplByName).handlers
    /\ removeService(handlers, SvcDemo).handlers # handlers

\* The methods of a definition whose path is in the map h or is the path of
\* an earlier method of the definition.
Clashes(h, service) ==
    {i \in 1..Len(service.v) :
        \/ service.v[i].path \in DOMAIN h
        \/ \E j \in 1..(i - 1) : service.v[j].path = service.v[i].path}
FirstClash(h, service) ==
    CHOOSE i \in Clashes(h, service) : \A j \in Clashes(h, service) : i <= j

\* C13: when addService(def, impl) meets a method whose path is already in
\* the handler map (registered earlier, or by an earlier method of def), the
\* call throws an error that names that path, and the handler registered for
\* that path, like every handler the map held, is not overwritten.
C13_AddServiceCollision ==
    [][\A S \in Services, I \in Implementations :
         (/\ ret'.op = "addService"
          /\ S.isObject /\ I.isObject
          /\ Clashes(handlers, S) # {}
          /\ AddService(S, I)) =>
             LET i == FirstClash(handlers, S)
                 p == S.v[i].path
                 j == CHOOSE k \in 1..i : S.v[k].path = p /\ \A l \in 1..(k - 1) : S.v[l].path # p
             IN  /\ ret' = Threw("addService", <<"Method handler for ", p, " already provided.">>)
                 /\ \A q \in DOMAIN handlers : handlers'[q] = handlers[q]
                 /\ p \in DOMAIN handlers'
                 /\ p \notin DOMAIN handlers =>
                       /\ handlers'[p].func = implFor(S.v[j], I)
                       /\ handlers'[p].type = methodType(S.v[j])]_vars

\* addService(SvcTwice, I) threw on its second method: the handler of the
\* first one stayed.
C13_Witness ==
    /\ ret = Threw("addService", <<"Method handler for ", "/demo.S/Watch", " already provided.">>)
    /\ "/demo.S/Watch" \in DOMAIN handlers
    /\ handlers["/demo.S/Watch"].type = "serverStream"
    /\ handlers["/demo.S/Watch"].func.id = "watch"

(***************************************************************************)
(* Claims about the per-session counters (checked under SpecTelemetry)     *)
(***************************************************************************)
\* Streams on a started server whose sessions come and go and which is shut
\* down: the streams are well-formed or have a bad content type, name a
\* registered or an unregistered path, and run without a fault.
NextTelemetry ==
    \/ SessionArrive
    \/ \E s \in SessIds : SessionClose(s)
    \/ \E s \in SessIds, ct \in {Str(GrpcPrefix), Undefined},
          p \in {"/demo.S/Chat", "/demo.S/Missing"} : StreamArrive(s, ct, p, "none")
    \/ \E c \in StreamIds, code \in StatusCodes : CallFinished(c, code)
    \/ ForceShutdown
    \/ TryShutdown

SpecTelemetry == InitCalls /\ [][NextTelemetry]_vars

RECURSIVE SumStarted(_, _)
SumStarted(m, S) ==
    IF S = {} THEN 0
    ELSE LET s == CHOOSE x \in S : TRUE
         IN  m[s].streamsStarted + SumStarted(m, S \ {s})

\* The streams that arrived on a session whose record is no longer in the map.
Orphans == {c \in Arrived : calls[c].session \notin DOMAIN sessions}

\* C14 as stated: between two handlers the sum of streamsStarted over the
\* session records of the sessions map equals callsStarted.
C14_SumEqualsCallsStarted ==
    SumStarted(sessions, DOMAIN sessions) = callTracker.callsStarted

\* C14 as amended: every record of the sessions map counts the streams that
\* arrived on its session, so the sum of streamsStarted over the map plus the
\* streams of the sessions whose record was removed (by the session's close
\* or by forceShutdown) equals callsStarted.
C14_SumPlusRemoved ==
    /\ callTracker.callsStarted = Cardinality(Arrived)
    /\ \A s \in DOMAIN sessions :
          sessions[s].streamsStarted = Cardinality({c \in Arrived : calls[c].session = s})
    /\ SumStarted(sessions, DOMAIN sessions) + Cardinality(Orphans)
          = callTracker.callsStarted
    /\ SumStarted(sessions, DOMAIN sessions) <= callTracker.callsStarted

\* A session that received a stream has closed, another one is in the map.
C14_Witness ==
    /\ callTracker.callsStarted = 1
    /\ sessions # EmptyMap
    /\ \E c \in Orphans : sess[calls[c].session].st = "gone"

(***************************************************************************)
(* Claims about the completion of tryShutdown (checked under SpecLifeFair) *)
(***************************************************************************)
\* The session emits 'close' after the server closed or destroyed it.
RequestedSessionClose(s) == sess[s].st \in {"closing", "destroyed"} /\ SessionClose(s)

\* Every close the server requested completes: the callback of
\* http2Server.close() runs, and a session closed or destroyed emits 'close'.
ClosesComplete ==
    /\ \A k \in SockIds : WF_vars(ListenerClosed(k))
    /\ \A s \in SessIds : WF_vars(RequestedSessionClose(s))

SpecLifeFair == InitLife /\ [][NextLife]_vars /\ ClosesComplete

\* C15: after tryShutdown(cb), if every listener close and every session
\* close the server requested completes, cb is eventually invoked, exactly
\* once and without an error, also when forceShutdown or another tryShutdown
\* is called while it is pending.
C15_CallbackEventuallyOnce ==
    /\ [](\A t \in 1..Len(shutdowns) :
            /\ shutdowns[t].called <= 1
            /\ shutdowns[t].called = 1 => shutdowns[t].error = "undefined")
    /\ \A t \in 1..MaxShutdowns :
          (Len(shutdowns) >= t) ~> (Len(shutdowns) >= t /\ shutdowns[t].called = 1)

\* The callback of a tryShutdown was invoked after a forceShutdown destroyed
\* a session that the tryShutdown had closed.
C15_Witness ==
    /\ Len(shutdowns) >= 1
    /\ shutdowns[1].called = 1
    /\ shutdowns[1].pendingChecks = 0
    /\ \E s \in SessIds : sess[s].closed /\ sess[s].code = "CANCEL" /\ sess[s].st = "gone"

\* C16: when tryShutdown(cb) is called with no listening socket in the
\* listener list and no non-closed session in the sessions map, cb has not
\* been invoked when tryShutdown returns.
C16_CallbackAfterReturn ==
    [][(/\ \A k \in Listed : ~listening(k)
        /\ \A s \in DOMAIN sessions : sess[s].closed
        /\ TryShutdown) =>
           shutdowns'[Len(shutdowns) + 1].called = 0]_vars

\* C17: every entry of the listener list has its channelz ref registered and
\* referenced as a child of the server; a listener whose close has completed
\* is no longer an entry of the list.
C17_ListedListenersReferenced ==
    \A k \in Listed :
        /\ sock[k].reg /\ sock[k].child
        /\ sock[k].st # "closed"

(***************************************************************************)
(* Claims about ports that differ (checked under SpecBindPorts)            *)
(***************************************************************************)
\* The ports http2Server.address() may report when nothing is assumed about
\* the system.
ReportedPorts == ExplicitPorts \cup EphemeralPorts \cup {8081}

\* One bindAsync call whose listeners report any port.
NextBindPorts ==
    \/ BindAsync("ok")
    \/ \E al \in AddressLists : ResolveSuccess(al)
    \/ \E k \in SockIds, p \in ReportedPorts : ListenOk(k, p)
    \/ \E k \in SockIds : ListenError(k)
    \/ BindCallback

SpecBindPorts == Init /\ [][NextBindPorts]_vars

\* A round of bindSpecificPort ended with an address bound to another port
\* than the one the round asked for.
PortsDiffer ==
    /\ bind.mode = "specific"
    /\ AllSettled
    /\ \E i \in bind.from..Len(bind.addrs) :
          bind.results[i] # <<"error">> /\ bind.results[i][2] # bind.portNum

\* C18: when the addresses of a bindAsync do not all bind to the same port in
\* the explicit-port path, the bind callback gets the error 'multiple port
\* numbers added from single address'.
C18_DifferentPortsReported ==
    PortsDiffer =>
        /\ Len(OwnReplies) = 1
        /\ OwnReplies[1].error =
              <<"Invalid state: multiple port numbers added from single address">>

(***************************************************************************)
(* Claims about the wildcard path (checked under SpecBind)                 *)
(***************************************************************************)
IsError(r) == r = <<"error">>
IsPort(r) == r # <<>> /\ r # <<"error">>

\* The latest bindAsync resolved to a list whose first address is TCP with
\* port 0.
WildcardList ==
    /\ bind.resolved
    /\ Len(bind.addrs) >= 1
    /\ bind.addrs[1].tcp
    /\ bind.addrs[1].port = 0

\* The number of addresses the latest bindAsync resolved to.
Resolved == Len(bind.addrs)

\* C19: in the wildcard path the addresses are tried one at a time, in order,
\* until the first one binds; every remaining address is then bound to the
\* port of that one in a single round with no second wildcard attempt, and
\* the callback gets no error and that port, count being 1 + the remaining
\* addresses that bound; an address that failed is not tried again; if every
\* wildcard attempt fails the callback gets the count-0 error and port 0.
C19_WildcardThenSpecific ==
    /\ [](WildcardList =>
            /\ bind.mode \in {"wildcard", "specific"}
            /\ bind.mode = "wildcard" =>
                  /\ \A j \in 1..Resolved : j < bind.from => IsError(bind.results[j])
                  /\ \A j \in 1..Resolved : j > bind.from =>
                        (bind.results[j] = <<>> /\ bind.socks[j] = 0)
                  /\ \A j \in 1..Resolved : j = bind.from =>
                        (/\ bind.results[j] = <<>>
                         /\ bind.socks[j] # 0
                         /\ sock[bind.socks[j]].st = "binding")
                  /\ bind.appended = 0
            /\ bind.mode = "specific" =>
                  /\ bind.from >= 2
                  /\ bind.previousCount = 1
                  /\ bind.results[bind.from - 1] = <<"port", bind.portNum>>
                  /\ (\A j \in 1..Resolved : bind.addrs[j].port = 0) => bind.portNum \in EphemeralPorts
                  /\ \A j \in 1..Resolved : j < bind.from - 1 => IsError(bind.results[j])
                  /\ \A j \in 1..Resolved : j >= bind.from =>
                        /\ bind.socks[j] # 0
                        /\ IsPort(bind.results[j]) => bind.results[j][2] = bind.portNum
            /\ ~AllSettled => OwnReplies = <<>>
            /\ AllSettled =>
                  /\ Len(OwnReplies) = 1
                  /\ bind.appended = Cardinality(BoundAddrs)
                  /\ bind.mode = "wildcard" =>
                        OwnReplies[1] = CallbackArgs(NoAddressAdded(Resolved), 0)
                  /\ bind.mode = "specific" =>
                        /\ OwnReplies[1] = CallbackArgs(<<>>, bind.portNum)
                        /\ bind.appended =
                              1 + Cardinality({j \in bind.from..Resolved : IsPort(bind.results[j])})
                        /\ \A l \in PartialLogs :
                              bind.logs[l][2] = OnlySomeAdded(bind.appended, Resolved))
    /\ [][(WildcardList /\ bindCalls' = bindCalls) =>
            \A j \in 1..Len(bind.addrs) :
                /\ bind.results[j] # <<>> => bind'.results[j] = bind.results[j]
                /\ bind.socks[j] # 0 => bind'.socks[j] = bind.socks[j]]_vars

\* [a1:0, a2:0] where a2 failed: the callback got (null, P), one listener
\* exists and the partial-bind line was logged.
C19_Witness ==
    /\ bind.addrs = <<TcpAddr(0), TcpAddr(0)>>
    /\ IsPort(bind.results[1]) /\ IsError(bind.results[2])
    /\ bind.delivered = <<CallbackArgs(<<>>, bind.results[1][2])>>
    /\ Len(http2ServerList) = 1
    /\ PartialLogs # {}

(***************************************************************************)
(* Claims about cancelled calls (checked under SpecCalls)                  *)
(***************************************************************************)
SyncShapePaths == {p \in DOMAIN handlers : handlers[p].type \in {"clientStream", "bidi"}}

\* C20: for the four shapes the user handler is not invoked for a call whose
\* cancelled flag is set at the point of invocation (for unary and server
\* streaming: after the first message was awaited, and neither when no
\* message came); dispatch then ends without a reply or an error; the handler
\* is invoked at most once per stream.
C20_CancelledNotInvoked ==
    /\ [](\A c \in StreamIds :
            /\ calls[c].invoked <= 1
            /\ calls[c].skipped => (calls[c].invoked = 0 /\ calls[c].sentError = <<>>))
    /\ [][/\ \A c \in StreamIds :
               calls'[c].invoked > calls[c].invoked =>
                   /\ ~calls[c].cancelled /\ ~calls'[c].cancelled
                   /\ calls[c].invoked = 0
          /\ \A c \in StreamIds, hasRequest \in BOOLEAN :
               FirstMessage(c, hasRequest) =>
                   IF calls[c].cancelled \/ ~hasRequest
                   THEN /\ calls'[c].invoked = 0
                        /\ calls'[c].skipped
                        /\ calls'[c].sentError = <<>>
                        /\ callTracker' = callTracker
                   ELSE calls'[c].invoked = 1
          /\ \A s \in SessIds :
               (\E c \in StreamIds : calls[c].st = "none" /\ calls'[c].session = s) =>
               \A p \in SyncShapePaths, ct \in {x \in ContentTypes : ~NotGrpc(x)} :
               StreamArrive(s, ct, p, "cancelledEarly") =>
                   /\ calls'[NextStream].invoked = 0
                   /\ calls'[NextStream].skipped
                   /\ calls'[NextStream].sentError = <<>>
                   /\ callTracker'.callsFailed = callTracker.callsFailed]_vars

\* A unary call was cancelled while its first message was awaited, and the
\* handler was skipped.
C20_Witness ==
    \E c \in StreamIds :
        /\ calls[c].type = "unary"
        /\ calls[c].cancelled
        /\ calls[c].skipped
        /\ ~calls[c].awaiting
        /\ calls[c].invoked = 0

(***************************************************************************)
(* Claims about the resolver listener of bindAsync (checked under SpecBind)*)
(***************************************************************************)
ResolverErrorReplies ==
    {r \in 1..Len(OwnReplies) : OwnReplies[r].error = <<"resolver error details">>}

\* C21: for one bindAsync call the first successful resolution result is
\* acted on (a bind attempt starts, or the callback is queued for an empty
\* list), and every later successful result starts no bind attempt, adds no
\* listener and queues or makes no call of the user callback.
C21_LaterResolutionsDiscarded ==
    [][\A al \in AddressLists :
         /\ (bind.resolved /\ ResolveSuccess(al)) =>
               /\ sock' = sock
               /\ http2ServerList' = http2ServerList
               /\ bind' = [bind EXCEPT !.events = @ + 1]
         /\ (~bind.resolved /\ ResolveSuccess(al)) =>
               /\ bind'.resolved /\ bind'.addrs = al
               /\ IF Len(al) = 0
                  THEN bind'.queued = Append(bind.queued,
                                             CallbackArgs(<<"No addresses resolved for port">>, 0))
                  ELSE \E k \in SockIds : sock[k].st = "unused" /\ sock'[k].st = "binding"]_vars

\* Two successful results were delivered for one call, the first with an
\* address that then bound, and the callback ran once.
C21_Witness ==
    /\ bind.resolved
    /\ bind.events = 2
    /\ ResolverErrorReplies = {}
    /\ bind.appended = 1
    /\ Len(bind.delivered) = 1
    /\ Len(http2ServerList) = 1

\* C22: the user callback of a bindAsync call is invoked at most once,
\* whatever resolver events reach the listener.
C22_CallbackAtMostOnce ==
    Len(bind.delivered) <= 1

(***************************************************************************)
(* Claims about telemetry refs and shutdown (checked under SpecLife)       *)
(***************************************************************************)
\* C23: every session whose telemetry ref is registered and referenced as a
\* child of the server has an entry in the sessions map, the entry its
\* snapshot function reads with sessions.get(session).
C23_RegisteredSessionHasEntry ==
    \A s \in SessIds : (sess[s].reg /\ sess[s].child) => MapHas(sessions, s)

(***************************************************************************)
(* Claims about shutting down a server that is being bound                 *)
(***************************************************************************)
\* A bound server that is started, bound again and shut down, with the
\* close completions of its listeners; nobody connects.
NextRebind ==
    \/ \E arg \in BindArgs : BindAsync(arg)
    \/ \E al \in AddressLists : ResolveSuccess(al)
    \/ ResolveError
    \/ \E k \in SockIds, p \in ExplicitPorts \cup EphemeralPorts : ListenOkAsAsked(k, p)
    \/ \E k \in SockIds : ListenError(k)
    \/ BindCallback
    \/ Start
    \/ ForceShutdown
    \/ TryShutdown
    \/ \E k \in SockIds : ListenerClosed(k)

SpecRebind == InitLife /\ [][NextRebind]_vars

\* The last call made on the server was a forceShutdown that returned, or a
\* tryShutdown whose callback was invoked, and every close it requested has
\* completed.
ShutdownComplete ==
    /\ \/ ret = Returned("forceShutdown", <<>>)
       \/ /\ ret = Returned("tryShutdown", <<>>)
          /\ shutdowns[Len(shutdowns)].called > 0
    /\ \A k \in SockIds : sock[k].st # "closing"

\* C24: once a shutdown is complete no socket of the server is listening,
\* also when a bindAsync made before the shutdown had a listen in flight.
C24_NothingListensAfterShutdown ==
    ShutdownComplete => \A k \in SockIds : ~listening(k)

\* C25: whenever started is true the server's own telemetry ref is
\* registered, over any sequence of bindAsync, start, tryShutdown and
\* forceShutdown.
C25_StartedServerRegistered ==
    started = TRUE => serverRef.registered

\* C26: when addService throws because the k-th method of the definition
\* collides with a path in the handler map, the methods before the k-th stay
\* registered with the handlers this call gave them, and no method after the
\* k-th is registered by the call: the map holds what it held before plus the
\* paths of the methods before the k-th.
C26_AddServiceNotAtomic ==
    [][\A S \in Services, I \in Implementations :
         (/\ ret'.op = "addService"
          /\ S.isObject /\ I.isObject
          /\ Clashes(handlers, S) # {}
          /\ AddService(S, I)) =>
             LET k == FirstClash(handlers, S)
                 before == {S.v[j].path : j \in 1..(k - 1)}
             IN  /\ ret'.threw
                 /\ DOMAIN handlers' = DOMAIN handlers \cup before
                 /\ \A q \in DOMAIN handlers : handlers'[q] = handlers[q]
                 /\ \A j \in 1..(k - 1) :
                       handlers'[S.v[j].path] =
                           HandlerEntry(S.v[j].path, implFor(S.v[j], I),
                                        S.v[j].responseSerialize, S.v[j].requestDeserialize,
                                        methodType(S.v[j]))
                 /\ \A j \in (k + 1)..Len(S.v) :
                       S.v[j].path \notin DOMAIN handlers \cup before =>
                           S.v[j].path \notin DOMAIN handlers']_vars

\* addService(SvcClash, I) threw on its second method, Echo, which register()
\* had added: Watch, the first method, stayed registered with the handler of
\* the call, and Feed, the third, was not registered.
C26_Witness ==
    /\ ret = Threw("addService", <<"Method handler for ", "/demo.S/Echo", " already provided.">>)
    /\ DOMAIN handlers = {"/demo.S/Echo", "/demo.S/Watch"}
    /\ handlers["/demo.S/Echo"].func = UserFn("implEcho")
    /\ handlers["/demo.S/Watch"].type = "bidi"
    /\ handlers["/demo.S/Watch"].func = UserFn("watch")

====
